---- MODULE Spec2Model ----
(***************************************************************************)
(* Seven24 churn analytics (streamlit_app.py): the data-cleaning,          *)
(* feature-derivation, scoring and rule-based explanation pipeline.        *)
(*                                                                         *)
(* Representation of values.                                               *)
(*   - a numeric cell of a frame is <<v>> (the number v) or <<>> (NaN);    *)
(*     a float result is <<n>> (an integer), <<n, d>> (the fraction n/d in *)
(*     lowest terms, d > 1), <<s, 0>> (s = 1: +inf, s = -1: -inf) or <<>>; *)
(*   - a categorical cell is <<"str", s>>, <<"int", n>> or                 *)
(*     <<"float", "nan">>, so that str(x), isinstance(x, (int, float)) and *)
(*     x == 'literal' can be computed as Python computes them;             *)
(*   - a probability is an integer number of percent, 0 .. 100;            *)
(*   - a frame (pandas DataFrame) is a sequence of rows (records).         *)
(***************************************************************************)
EXTENDS Integers, Sequences, FiniteSets, TLC

VARIABLES
    pc,              \* position of the script run / of the call under check
    df,              \* the loaded frame of raw customer rows
    stats,           \* fe.stats, the fitted statistics
    models,          \* keys of the loaded models dictionary
    model_key,       \* the scorer selector handed to predict_churn
    oracle,          \* answers the external classifiers have given so far
    calls,           \* external capability invocations, in order
    selected_id,     \* tab 1: the selected customer_id
    customer_data,   \* tab 1: customer_row.to_dict()
    churn_prob,      \* tab 1: proba[0]
    risk_level,      \* tab 1: get_risk_level(churn_prob)[0]
    features_df,     \* tab 1: the derived frame returned by predict_churn
    drivers,         \* tab 1: get_top_drivers(...)
    recommendations, \* tab 1: get_recommendations(...)
    probas,          \* tab 2: batch probabilities
    risk_levels,     \* tab 2: df_results['risk_level']
    error,           \* the exception that ended the run, or "none"
    arg,             \* unit runs: the input of the function under check
    ret              \* unit runs: the successive results

vars == <<pc, df, stats, models, model_key, oracle, calls, selected_id,
          customer_data, churn_prob, risk_level, features_df, drivers,
          recommendations, probas, risk_levels, error, arg, ret>>

-----------------------------------------------------------------------------
(* Bounds of the model *)

MaxBatch == 2       \* longest frame loaded by the script run
MaxApply == 2       \* how often a cleaning step is re-applied to its output

-----------------------------------------------------------------------------
(* Program constants *)

HIGH_RISK_THRESHOLD == 50
MEDIUM_RISK_THRESHOLD == 35
DEFAULT_MEDIAN_CHARGES == 5000
DEFAULT_MEDIAN_USAGE == 70
HIGH_VALUE_CHARGES == 6200
TOP_DRIVERS == 6

LR_FEATURE_SET ==
    << "tenure_log", "is_new_customer", "is_established",
       "service_encoded", "avg_monthly_revenue", "is_high_value", "price_sensitivity",
       "financial_stress", "support_intensity", "is_heavy_support",
       "usage_efficiency", "usage_tier_ratio",
       "autopay_binary", "referral_flag", "loyalty_score",
       "contract_risk", "contract_tenure_mismatch", "payment_friction", "is_mpesa",
       "high_value_mtm", "new_no_autopay", "support_late_combo",
       "premium_low_usage", "bundled_loyal",
       "pay_bank", "pay_credit", "pay_debit", "pay_cash",
       "loc_suburban", "loc_rural",
       "num_services", "charges_anomaly_flag" >>

\* mutant of XGBOOST_FEATURE_SET: monthly_charges_log left out
XGBOOST_FEATURE_SET_WITHOUT_LOG ==
    << "tenure_bin", "is_new_customer", "is_established", "tenure_log",
       "avg_monthly_revenue", "is_high_value", "price_sensitivity",
       "support_intensity", "is_heavy_support", "late_payment_flag", "financial_stress",
       "usage_efficiency", "usage_tier_ratio",
       "autopay_binary", "referral_flag", "loyalty_score",
       "contract_risk", "contract_tenure_mismatch", "payment_friction", "is_mpesa",
       "high_value_mtm", "new_no_autopay", "support_late_combo",
       "premium_low_usage", "bundled_loyal",
       "service_encoded", "pay_bank", "pay_credit", "pay_debit", "pay_cash",
       "loc_suburban", "loc_rural",
       "num_services", "charges_anomaly_flag" >>

XGBOOST_FEATURE_SET ==
    << "tenure_bin", "is_new_customer", "is_established", "tenure_log",
       "avg_monthly_revenue", "is_high_value", "price_sensitivity", "monthly_charges_log",
       "support_intensity", "is_heavy_support", "late_payment_flag", "financial_stress",
       "usage_efficiency", "usage_tier_ratio",
       "autopay_binary", "referral_flag", "loyalty_score",
       "contract_risk", "contract_tenure_mismatch", "payment_friction", "is_mpesa",
       "high_value_mtm", "new_no_autopay", "support_late_combo",
       "premium_low_usage", "bundled_loyal",
       "service_encoded", "pay_bank", "pay_credit", "pay_debit", "pay_cash",
       "loc_suburban", "loc_rural",
       "num_services", "charges_anomaly_flag" >>

-----------------------------------------------------------------------------
(* Numbers, NaN and Python values *)

NaN == <<>>
Num(v) == <<v>>
IsNaN(c) == c = NaN

Str(s) == <<"str", s>>
IntCell(n) == <<"int", n>>
NaNCell == <<"float", "nan">>

Abs(n) == IF n < 0 THEN -n ELSE n
Max(a, b) == IF a >= b THEN a ELSE b

RECURSIVE Gcd(_, _)
Gcd(a, b) == IF b = 0 THEN a ELSE Gcd(b, a % b)

\* n / d as numpy computes it: 0/0 is NaN, n/0 is +-inf
Ratio(n, d) ==
    IF d = 0
    THEN (IF n = 0 THEN NaN ELSE <<(IF n > 0 THEN 1 ELSE -1), 0>>)
    ELSE LET s == IF d < 0 THEN -1 ELSE 1
             g == Gcd(Abs(n), Abs(d))
             nn == (s * n) \div g
             dd == (s * d) \div g
         IN IF dd = 1 THEN <<nn>> ELSE <<nn, dd>>

\* a / b on numeric cells, NaN propagating
Div(a, b) == IF IsNaN(a) \/ IsNaN(b) THEN NaN ELSE Ratio(a[1], b[1])
\* a * b on numeric cells, NaN propagating
Mul(a, b) == IF IsNaN(a) \/ IsNaN(b) THEN NaN ELSE Num(a[1] * b[1])
\* a + b on numeric cells, NaN propagating
Add(a, b) == IF IsNaN(a) \/ IsNaN(b) THEN NaN ELSE Num(a[1] + b[1])
\* comparisons with NaN are False
Lt(a, b) == ~IsNaN(a) /\ ~IsNaN(b) /\ a[1] < b[1]
Gt(a, b) == Lt(b, a)
Ge(a, b) == ~IsNaN(a) /\ ~IsNaN(b) /\ a[1] >= b[1]
\* Series.clip(lower=lo) and np.maximum(x, lo): NaN stays NaN
ClipLower(c, lo) == IF IsNaN(c) THEN NaN ELSE Num(Max(c[1], lo))
\* Series.fillna(v): a NaN fill value leaves the cell NaN
FillNa(c, v) == IF IsNaN(c) THEN v ELSE c
\* (condition).astype(int)
AsInt(b) == IF b THEN 1 ELSE 0

\* str(x)
PyStr(x) ==
    CASE x[1] = "str" -> x[2]
      [] x[1] = "int" -> ToString(x[2])
      [] OTHER -> "nan"

\* str.strip()
RECURSIVE LStrip(_)
LStrip(s) == IF Len(s) > 0 /\ SubSeq(s, 1, 1) = " " THEN LStrip(SubSeq(s, 2, Len(s))) ELSE s
RECURSIVE RStrip(_)
RStrip(s) ==
    IF Len(s) > 0 /\ SubSeq(s, Len(s), Len(s)) = " "
    THEN RStrip(SubSeq(s, 1, Len(s) - 1)) ELSE s
Strip(s) == RStrip(LStrip(s))

\* dict.get(key, default)
DictGet(d, k, default) == IF k \in DOMAIN d THEN d[k] ELSE default

\* df[col].isna().any()
IsNaAny(frame, col) == \E i \in DOMAIN frame : IsNaN(frame[i][col])

-----------------------------------------------------------------------------
(* Data cleaning & preprocessing *)

contract_map ==
    ("Month-to-Month" :> "Month-to-Month") @@ ("month-to-month" :> "Month-to-Month") @@
    ("MTM" :> "Month-to-Month") @@ ("Monthly" :> "Month-to-Month") @@
    ("Month to Month" :> "Month-to-Month") @@ ("month to month" :> "Month-to-Month") @@
    ("One Year" :> "One Year") @@ ("One year" :> "One Year") @@ ("one year" :> "One Year") @@
    ("1 Year" :> "One Year") @@ ("1-Year" :> "One Year") @@ ("12 Months" :> "One Year") @@
    ("Two Year" :> "Two Year") @@ ("Two year" :> "Two Year") @@ ("two year" :> "Two Year") @@
    ("2 Year" :> "Two Year") @@ ("2-Year" :> "Two Year") @@ ("24 Months" :> "Two Year")

payment_map ==
    ("M-Pesa" :> "M-Pesa") @@ ("M-pesa" :> "M-Pesa") @@ ("MPESA" :> "M-Pesa") @@
    ("mpesa" :> "M-Pesa") @@ ("Mpesa" :> "M-Pesa") @@
    ("Bank Transfer" :> "Bank Transfer") @@ ("Bank transfer" :> "Bank Transfer") @@
    ("bank transfer" :> "Bank Transfer") @@ ("Bank_Transfer" :> "Bank Transfer") @@
    ("Credit Card" :> "Credit Card") @@ ("Credit card" :> "Credit Card") @@
    ("credit card" :> "Credit Card") @@
    ("Debit Card" :> "Debit Card") @@ ("Debit card" :> "Debit Card") @@
    ("debit card" :> "Debit Card") @@
    ("Cash" :> "Cash") @@ ("cash" :> "Cash") @@ ("CASH" :> "Cash")

autopay_map ==
    (Str("Yes") :> "Yes") @@ (Str("yes") :> "Yes") @@ (Str("YES") :> "Yes") @@
    (Str("Y") :> "Yes") @@ (Str("True") :> "Yes") @@ (Str("true") :> "Yes") @@
    (Str("1") :> "Yes") @@ (IntCell(1) :> "Yes") @@
    (Str("No") :> "No") @@ (Str("no") :> "No") @@ (Str("NO") :> "No") @@
    (Str("N") :> "No") @@ (Str("False") :> "No") @@ (Str("false") :> "No") @@
    (Str("0") :> "No") @@ (IntCell(0) :> "No")

valid_services == {"Basic", "Standard", "Premium"}
valid_locations == {"Urban", "Suburban", "Rural"}

\* mutant of StandardizeContract: the default written as a synonym, not the canonical label
StandardizeContractSynonymDefault(x) ==
    Str(DictGet(contract_map, Strip(PyStr(x)), "Monthly"))

\* lambda x: contract_map.get(str(x).strip(), 'Month-to-Month')
StandardizeContract(x) == Str(DictGet(contract_map, Strip(PyStr(x)), "Month-to-Month"))

\* mutant of StandardizePayment: an unmapped label kept as it is
StandardizePaymentKeepUnknown(x) ==
    Str(DictGet(payment_map, Strip(PyStr(x)), Strip(PyStr(x))))

\* lambda x: payment_map.get(str(x).strip(), 'M-Pesa')
StandardizePayment(x) == Str(DictGet(payment_map, Strip(PyStr(x)), "M-Pesa"))

\* lambda x: autopay_map.get(x if isinstance(x, (int, float)) else str(x).strip(), 'No')
StandardizeAutopay(x) ==
    Str(DictGet(autopay_map,
                IF x[1] \in {"int", "float"} THEN x ELSE Str(Strip(PyStr(x))),
                "No"))

\* lambda x: x if x in valid_services else 'Standard'
StandardizeService(x) ==
    IF x[1] = "str" /\ x[2] \in valid_services THEN x ELSE Str("Standard")

\* lambda x: x if x in valid_locations else 'Urban'
StandardizeLocation(x) ==
    IF x[1] = "str" /\ x[2] \in valid_locations THEN x ELSE Str("Urban")

StandardizeRow(r) ==
    [r EXCEPT !.contract_type = StandardizeContract(@),
              !.payment_method = StandardizePayment(@),
              !.autopay_enabled = StandardizeAutopay(@),
              !.service_type = StandardizeService(@),
              !.location_type = StandardizeLocation(@)]

standardize_categoricals(frame) == [i \in DOMAIN frame |-> StandardizeRow(frame[i])]

\* the fill value of monthly_charges: the 'Standard' segment's median, else 5000
MedianChargesFill(fe_stats) ==
    Num(DictGet(fe_stats.service_type_median_charges, "Standard", DEFAULT_MEDIAN_CHARGES))

\* the fill value of data_usage_gb: the 'Standard' segment's median, else 70
MedianUsageFill(fe_stats) ==
    Num(DictGet(fe_stats.service_type_median_usage, "Standard", DEFAULT_MEDIAN_USAGE))

\* df['monthly_charges'].fillna(median), under the frame-level isna().any() guard
FillMonthlyCharges(frame, fe_stats) ==
    IF IsNaAny(frame, "monthly_charges")
    THEN [i \in DOMAIN frame |->
            [frame[i] EXCEPT !.monthly_charges = FillNa(@, MedianChargesFill(fe_stats))]]
    ELSE frame

FillDataUsage(frame, fe_stats) ==
    IF IsNaAny(frame, "data_usage_gb")
    THEN [i \in DOMAIN frame |->
            [frame[i] EXCEPT !.data_usage_gb = FillNa(@, MedianUsageFill(fe_stats))]]
    ELSE frame

\* mutant of FillTotalCharges: tenure_months not raised to 1 in the fill value
FillTotalChargesUnclipped(frame) ==
    IF IsNaAny(frame, "total_charges")
    THEN [i \in DOMAIN frame |->
            [frame[i] EXCEPT !.total_charges =
                FillNa(@, Mul(frame[i].monthly_charges, frame[i].tenure_months))]]
    ELSE frame

\* mutant of FillTotalCharges: the column assigned, not fillna'd, once any cell is missing
FillTotalChargesOverwrite(frame) ==
    IF IsNaAny(frame, "total_charges")
    THEN [i \in DOMAIN frame |->
            [frame[i] EXCEPT !.total_charges =
                Mul(frame[i].monthly_charges, ClipLower(frame[i].tenure_months, 1))]]
    ELSE frame

\* df['total_charges'].fillna(df['monthly_charges'] * df['tenure_months'].clip(lower=1))
FillTotalCharges(frame) ==
    IF IsNaAny(frame, "total_charges")
    THEN [i \in DOMAIN frame |->
            [frame[i] EXCEPT !.total_charges =
                FillNa(@, Mul(frame[i].monthly_charges,
                              ClipLower(frame[i].tenure_months, 1)))]]
    ELSE frame

\* for col in numeric_cols: df[col] = df[col].fillna(0)
FillZeroRow(r) ==
    [r EXCEPT !.tenure_months = FillNa(@, Num(0)),
              !.num_services = FillNa(@, Num(0)),
              !.support_calls = FillNa(@, Num(0)),
              !.late_payment_count = FillNa(@, Num(0)),
              !.referral_count = FillNa(@, Num(0))]

\* df['tenure_months'].clip(lower=0); df['support_calls'].clip(lower=0)
FixNegativeRow(r) ==
    [r EXCEPT !.tenure_months = ClipLower(@, 0),
              !.support_calls = ClipLower(@, 0)]

handle_missing_values(frame, fe_stats) ==
    LET d1 == FillMonthlyCharges(frame, fe_stats)
        d2 == FillDataUsage(d1, fe_stats)
        d3 == FillTotalCharges(d2)
        d4 == [i \in DOMAIN d3 |-> FillZeroRow(d3[i])]
    IN [i \in DOMAIN d4 |-> FixNegativeRow(d4[i])]

\* mutant of AnomalyRow: total_charges <= monthly_charges
AnomalyRowInclusive(r) ==
    [k \in DOMAIN r \cup {"charges_anomaly_flag"} |->
        IF k = "charges_anomaly_flag"
        THEN AsInt(Ge(r.monthly_charges, r.total_charges))
        ELSE r[k]]

AnomalyRow(r) ==
    [k \in DOMAIN r \cup {"charges_anomaly_flag"} |->
        IF k = "charges_anomaly_flag"
        THEN AsInt(Lt(r.total_charges, r.monthly_charges))
        ELSE r[k]]

detect_anomalies(frame) == [i \in DOMAIN frame |-> AnomalyRow(frame[i])]

\* np.log1p / np.log of a numeric cell, kept symbolic: <<"ln", k>> is ln(k)
Ln(c) == IF IsNaN(c) THEN <<"nan", 0>> ELSE <<"ln", c[1]>>

\* pd.cut(tenure_months, bins=[-inf, 5, 12, 24, inf], labels=[0, 1, 2, 3])
TenureBin(t) ==
    CASE t[1] <= 5 -> 0
      [] t[1] <= 12 -> 1
      [] t[1] <= 24 -> 2
      [] OTHER -> 3

\* pd.cut(late_payment_count, bins=[-inf, 0, 2, inf], labels=[0, 1, 2])
FinancialStress(l) ==
    CASE l[1] <= 0 -> 0
      [] l[1] <= 2 -> 1
      [] OTHER -> 2

contract_risk_map == ("Month-to-Month" :> 2) @@ ("One Year" :> 1) @@ ("Two Year" :> 0)
service_map == ("Basic" :> 0) @@ ("Standard" :> 1) @@ ("Premium" :> 2)

\* Series.map(dict): a value that is no key maps to NaN
SeriesMap(d, x) == IF x[1] = "str" /\ x[2] \in DOMAIN d THEN Num(d[x[2]]) ELSE NaN

\* fe.stats[name].get(row['service_type'], default)
SegmentGet(segment, x, default) ==
    IF x[1] = "str" /\ x[2] \in DOMAIN segment THEN Num(segment[x[2]]) ELSE default

\* mutant of AvgMonthlyRevenue: the divisor not raised to 1
AvgMonthlyRevenueUnclipped(total, tenure) == Div(total, tenure)

\* df['total_charges'] / np.maximum(df['tenure_months'], 1)
AvgMonthlyRevenue(total, tenure) == Div(total, ClipLower(tenure, 1))

DerivedRow(r, fe_stats) ==
    LET tenure == r.tenure_months
        is_new_customer == AsInt(Lt(tenure, Num(6)))
        is_established == AsInt(Gt(tenure, Num(24)))
        is_high_value == AsInt(Gt(r.monthly_charges, Num(fe_stats.monthly_charges_p75)))
        autopay_binary == AsInt(r.autopay_enabled = Str("Yes"))
        mtm == r.contract_type = Str("Month-to-Month")
    IN [ tenure_bin |-> TenureBin(tenure),
         is_new_customer |-> is_new_customer,
         is_established |-> is_established,
         tenure_log |-> Ln(Add(tenure, Num(1))),
         avg_monthly_revenue |-> AvgMonthlyRevenue(r.total_charges, tenure),
         is_high_value |-> is_high_value,
         price_sensitivity |->
             Div(r.monthly_charges,
                 SegmentGet(fe_stats.service_type_median_charges, r.service_type,
                            r.monthly_charges)),
         monthly_charges_log |-> Ln(ClipLower(r.monthly_charges, 1)),
         support_intensity |-> Div(r.support_calls, ClipLower(tenure, 1)),
         is_heavy_support |-> AsInt(Gt(r.support_calls, Num(5))),
         late_payment_flag |-> AsInt(Gt(r.late_payment_count, Num(0))),
         financial_stress |-> FinancialStress(r.late_payment_count),
         usage_efficiency |-> Div(r.data_usage_gb, Add(r.num_services, Num(1))),
         usage_tier_ratio |->
             Div(r.data_usage_gb,
                 SegmentGet(fe_stats.service_type_median_usage, r.service_type,
                            ClipLower(r.data_usage_gb, 1))),
         autopay_binary |-> autopay_binary,
         referral_flag |-> AsInt(Gt(r.referral_count, Num(0))),
         loyalty_score |-> Add(r.referral_count, Num(is_established + autopay_binary)),
         contract_risk |-> SeriesMap(contract_risk_map, r.contract_type),
         contract_tenure_mismatch |-> AsInt(mtm /\ Gt(tenure, Num(12))),
         payment_friction |->
             AsInt(r.payment_method = Str("Cash") /\ r.autopay_enabled = Str("No")),
         is_mpesa |-> AsInt(r.payment_method = Str("M-Pesa")),
         high_value_mtm |-> AsInt(is_high_value = 1 /\ mtm),
         new_no_autopay |-> AsInt(is_new_customer = 1 /\ autopay_binary = 0),
         support_late_combo |->
             AsInt(Gt(r.support_calls, Num(3)) /\ Gt(r.late_payment_count, Num(1))),
         premium_low_usage |->
             AsInt(r.service_type = Str("Premium")
                   /\ Lt(r.data_usage_gb, Num(fe_stats.data_usage_p25))),
         bundled_loyal |-> AsInt(Ge(r.num_services, Num(3)) /\ Gt(tenure, Num(12))),
         service_encoded |-> SeriesMap(service_map, r.service_type),
         pay_bank |-> AsInt(r.payment_method = Str("Bank Transfer")),
         pay_credit |-> AsInt(r.payment_method = Str("Credit Card")),
         pay_debit |-> AsInt(r.payment_method = Str("Debit Card")),
         pay_cash |-> AsInt(r.payment_method = Str("Cash")),
         loc_suburban |-> AsInt(r.location_type = Str("Suburban")),
         loc_rural |-> AsInt(r.location_type = Str("Rural")) ]

\* the row with its derived columns added
EngineerRow(r, fe_stats) == DerivedRow(r, fe_stats) @@ r

engineer_features(frame, fe_stats) ==
    [i \in DOMAIN frame |-> EngineerRow(frame[i], fe_stats)]

-----------------------------------------------------------------------------
(* Prediction functions *)

\* df_features[feature_set]: the named columns of every row, in the set's order
ProjectRow(row, feature_set) == [j \in DOMAIN feature_set |-> row[feature_set[j]]]
Project(frame, feature_set) ==
    [i \in DOMAIN frame |-> ProjectRow(frame[i], feature_set)]

\* scaler.transform(X): the external per-row scale/center transform, kept symbolic
ScalerTransform(X) == [i \in DOMAIN X |-> <<"scaled", X[i]>>]

\* model.predict_proba(X)[:, 1]: the external classifier `key` answers each row
PredictProba(key, X, answer) == [i \in DOMAIN X |-> answer[<<key, X[i]>>]]

\* lines 352-355 of predict_churn
Preprocess(frame, fe_stats) ==
    engineer_features(
        detect_anomalies(handle_missing_values(standardize_categoricals(frame), fe_stats)),
        fe_stats)

\* the classifier a selector is routed to
Route(model_type) == IF model_type = "xgboost" THEN "xgboost" ELSE "logistic_regression"

\* mutant of Invocations: the linear classifier called on the unscaled vectors
InvocationsUnscaledLinear(df_features, model_type) ==
    IF model_type = "xgboost"
    THEN << [fn |-> "xgboost.predict_proba",
             X |-> Project(df_features, XGBOOST_FEATURE_SET)] >>
    ELSE << [fn |-> "scaler.transform", X |-> Project(df_features, LR_FEATURE_SET)],
            [fn |-> "logistic_regression.predict_proba",
             X |-> Project(df_features, LR_FEATURE_SET)] >>

\* the external invocations of one call, in order
Invocations(df_features, model_type) ==
    IF model_type = "xgboost"
    THEN << [fn |-> "xgboost.predict_proba",
             X |-> Project(df_features, XGBOOST_FEATURE_SET)] >>
    ELSE << [fn |-> "scaler.transform", X |-> Project(df_features, LR_FEATURE_SET)],
            [fn |-> "logistic_regression.predict_proba",
             X |-> ScalerTransform(Project(df_features, LR_FEATURE_SET))] >>

\* the vectors the classifier is called on: the X of the call's last invocation
ClassifierInput(df_features, model_type) ==
    LET inv == Invocations(df_features, model_type) IN inv[Len(inv)].X

\* predict_churn(df, models, fe, model_type); `answer` is what the external
\* classifiers return.  models[key] of an absent key raises KeyError.
predict_churn(frame, mods, fe_stats, model_type, answer) ==
    LET df_features == Preprocess(frame, fe_stats)
    IN IF Route(model_type) \notin mods
       THEN [error |-> "KeyError", proba |-> <<>>, df_features |-> <<>>, calls |-> <<>>,
             served_by |-> "none"]
       ELSE [error |-> "none",
             proba |-> PredictProba(Route(model_type),
                                    ClassifierInput(df_features, model_type), answer),
             df_features |-> df_features,
             calls |-> Invocations(df_features, model_type),
             served_by |-> Route(model_type)]

\* mutant of get_risk_level: the thresholds compared with >= instead of >
get_risk_level_inclusive(proba) ==
    IF proba >= HIGH_RISK_THRESHOLD THEN <<"HIGH", "#FF4B4B">>
    ELSE IF proba >= MEDIUM_RISK_THRESHOLD THEN <<"MEDIUM", "#FFA500">>
    ELSE <<"LOW", "#00CC66">>

get_risk_level(proba) ==
    IF proba > HIGH_RISK_THRESHOLD THEN <<"HIGH", "#FF4B4B">>
    ELSE IF proba > MEDIUM_RISK_THRESHOLD THEN <<"MEDIUM", "#FFA500">>
    ELSE <<"LOW", "#00CC66">>

\* tab 2: lambda p: 'HIGH' if p > HIGH else 'MEDIUM' if p > MEDIUM else 'LOW'
BatchRiskLevel(p) ==
    IF p > HIGH_RISK_THRESHOLD THEN "HIGH"
    ELSE IF p > MEDIUM_RISK_THRESHOLD THEN "MEDIUM" ELSE "LOW"

\* recommendations.append(rec) under a condition
AppendIf(cond, item) == IF cond THEN <<item>> ELSE <<>>

RecUrgent == [priority |-> "URGENT", action |-> "Schedule immediate retention call",
              impact |-> "Direct intervention for high-risk customer"]
RecContract == [priority |-> "HIGH", action |-> "Offer 12-month contract with 15% discount",
                impact |-> "Reduces churn odds by ~75%"]
RecOnboarding == [priority |-> "HIGH", action |-> "Assign dedicated onboarding specialist",
                  impact |-> "New customers have +25% churn risk"]
RecAutopay == [priority |-> "MEDIUM",
               action |-> "Enable autopay with KES 500 credit incentive",
               impact |-> "Reduces churn odds by ~8%"]
RecSupport == [priority |-> "HIGH", action |-> "Escalate to customer success manager",
               impact |-> "Heavy support users have +15% churn risk"]
RecVip == [priority |-> "HIGH", action |-> "VIP retention call + loyalty reward program",
           impact |-> "High-value customers need special attention"]
RecPaymentPlan == [priority |-> "MEDIUM", action |-> "Offer flexible payment plan",
                   impact |-> "Financial stress increases churn risk"]

\* mutant of get_recommendations: the urgent rule at churn_proba >= HIGH_RISK_THRESHOLD
get_recommendations_urgent_inclusive(cd, churn_proba) ==
       AppendIf(churn_proba >= HIGH_RISK_THRESHOLD, RecUrgent)
    \o AppendIf(cd.contract_type = Str("Month-to-Month"), RecContract)
    \o AppendIf(Lt(cd.tenure_months, Num(6)), RecOnboarding)
    \o AppendIf(cd.autopay_enabled = Str("No"), RecAutopay)
    \o AppendIf(Gt(cd.support_calls, Num(3)), RecSupport)
    \o AppendIf(Gt(cd.monthly_charges, Num(HIGH_VALUE_CHARGES)), RecVip)
    \o AppendIf(Gt(cd.late_payment_count, Num(2)), RecPaymentPlan)

\* the recommendations cut like the drivers: recommendations[:6]
get_recommendations_top_six(cd, churn_proba) ==
    LET all ==    AppendIf(churn_proba > HIGH_RISK_THRESHOLD, RecUrgent)
               \o AppendIf(cd.contract_type = Str("Month-to-Month"), RecContract)
               \o AppendIf(Lt(cd.tenure_months, Num(6)), RecOnboarding)
               \o AppendIf(cd.autopay_enabled = Str("No"), RecAutopay)
               \o AppendIf(Gt(cd.support_calls, Num(3)), RecSupport)
               \o AppendIf(Gt(cd.monthly_charges, Num(HIGH_VALUE_CHARGES)), RecVip)
               \o AppendIf(Gt(cd.late_payment_count, Num(2)), RecPaymentPlan)
    IN SubSeq(all, 1, IF Len(all) < TOP_DRIVERS THEN Len(all) ELSE TOP_DRIVERS)

get_recommendations(cd, churn_proba) ==
       AppendIf(churn_proba > HIGH_RISK_THRESHOLD, RecUrgent)
    \o AppendIf(cd.contract_type = Str("Month-to-Month"), RecContract)
    \o AppendIf(Lt(cd.tenure_months, Num(6)), RecOnboarding)
    \o AppendIf(cd.autopay_enabled = Str("No"), RecAutopay)
    \o AppendIf(Gt(cd.support_calls, Num(3)), RecSupport)
    \o AppendIf(Gt(cd.monthly_charges, Num(HIGH_VALUE_CHARGES)), RecVip)
    \o AppendIf(Gt(cd.late_payment_count, Num(2)), RecPaymentPlan)

DrvContract == <<"Month-to-Month Contract", "HIGH", "+75% churn odds">>
DrvNew == <<"New Customer (<6 months)", "HIGH", "+25% churn odds">>
DrvHighValue == <<"High-Value Customer", "MEDIUM", "+27% churn odds">>
DrvSupport == <<"High Support Usage", "MEDIUM", "+14% churn odds">>
DrvLate == <<"Late Payments", "MEDIUM", "+16% churn odds">>
DrvNoAutopay == <<"No Autopay", "LOW", "+8% churn odds">>
DrvEstablished == <<"Established Customer", "POSITIVE", "-8% churn odds">>
DrvReferrals == <<"Has Made Referrals", "POSITIVE", "-15% churn odds">>

\* mutant of AllDrivers: the support rule at the is_heavy_support level, support_calls > 5
AllDriversHeavySupport(cd) ==
       AppendIf(cd.contract_type = Str("Month-to-Month"), DrvContract)
    \o AppendIf(Lt(cd.tenure_months, Num(6)), DrvNew)
    \o AppendIf(Gt(cd.monthly_charges, Num(HIGH_VALUE_CHARGES)), DrvHighValue)
    \o AppendIf(Gt(cd.support_calls, Num(5)), DrvSupport)
    \o AppendIf(Gt(cd.late_payment_count, Num(0)), DrvLate)
    \o AppendIf(cd.autopay_enabled = Str("No"), DrvNoAutopay)
    \o AppendIf(Gt(cd.tenure_months, Num(24)), DrvEstablished)
    \o AppendIf(Gt(cd.referral_count, Num(0)), DrvReferrals)

\* mutant of AllDrivers: the two positive rules evaluated in the other order
AllDriversReferralsFirst(cd) ==
       AppendIf(cd.contract_type = Str("Month-to-Month"), DrvContract)
    \o AppendIf(Lt(cd.tenure_months, Num(6)), DrvNew)
    \o AppendIf(Gt(cd.monthly_charges, Num(HIGH_VALUE_CHARGES)), DrvHighValue)
    \o AppendIf(Gt(cd.support_calls, Num(3)), DrvSupport)
    \o AppendIf(Gt(cd.late_payment_count, Num(0)), DrvLate)
    \o AppendIf(cd.autopay_enabled = Str("No"), DrvNoAutopay)
    \o AppendIf(Gt(cd.referral_count, Num(0)), DrvReferrals)
    \o AppendIf(Gt(cd.tenure_months, Num(24)), DrvEstablished)

\* every satisfied rule, in evaluation order (before the [:6] slice)
AllDrivers(cd) ==
       AppendIf(cd.contract_type = Str("Month-to-Month"), DrvContract)
    \o AppendIf(Lt(cd.tenure_months, Num(6)), DrvNew)
    \o AppendIf(Gt(cd.monthly_charges, Num(HIGH_VALUE_CHARGES)), DrvHighValue)
    \o AppendIf(Gt(cd.support_calls, Num(3)), DrvSupport)
    \o AppendIf(Gt(cd.late_payment_count, Num(0)), DrvLate)
    \o AppendIf(cd.autopay_enabled = Str("No"), DrvNoAutopay)
    \o AppendIf(Gt(cd.tenure_months, Num(24)), DrvEstablished)
    \o AppendIf(Gt(cd.referral_count, Num(0)), DrvReferrals)

\* the slice taken from the other end: drivers[-6:]
get_top_drivers_last_six(cd, df_features, coef_df) ==
    LET all == AllDrivers(cd)
    IN SubSeq(all, IF Len(all) < TOP_DRIVERS THEN 1 ELSE Len(all) - TOP_DRIVERS + 1, Len(all))

get_top_drivers(cd, df_features, coef_df) ==
    LET all == AllDrivers(cd)
    IN SubSeq(all, 1, IF Len(all) < TOP_DRIVERS THEN Len(all) ELSE TOP_DRIVERS)

-----------------------------------------------------------------------------
(* Inputs *)

Row(id, tenure, contract, service, monthly, total, payment, location, nserv, usage, support, autopay, late, referral) ==
    [ customer_id |-> id, tenure_months |-> tenure, contract_type |-> contract,
      service_type |-> service, monthly_charges |-> monthly, total_charges |-> total,
      payment_method |-> payment, location_type |-> location, num_services |-> nserv,
      data_usage_gb |-> usage, support_calls |-> support, autopay_enabled |-> autopay,
      late_payment_count |-> late, referral_count |-> referral ]

\* a new month-to-month customer, labels as typed in a CSV
RowNewMtm ==
    Row(1, Num(3), Str("Month to Month"), Str("Basic"), Num(3000), Num(9000),
        Str("mpesa"), Str("Urban"), Num(2), Num(50), Num(0), Str("No"), Num(0), Num(0))
\* an established premium customer whose total is missing
RowEstablished ==
    Row(2, Num(30), Str("Two Year"), Str("Premium"), Num(7000), NaN,
        Str("Credit Card"), Str("Rural"), Num(4), Num(10), Num(6), IntCell(1),
        Num(3), Num(2))
\* a row with most cells missing or unrecognized
RowSparse ==
    Row(3, NaN, Str("weird_value"), NaNCell, NaN, NaN,
        Str(" Cash "), Str("Suburban"), NaN, NaN, Num(-1), Str("N"), NaN, NaN)
\* a second row carrying customer_id 1
RowDuplicateId ==
    Row(1, Num(0), Str("Month-to-Month"), Str("Standard"), Num(6500), Num(500),
        Str("Bank Transfer"), Str("Urban"), Num(3), Num(80), Num(4), Str("No"),
        Num(1), Num(1))

SampleRows == {RowNewMtm, RowEstablished, RowSparse, RowDuplicateId}

\* the frames pd.read_csv may load: 1 .. MaxBatch rows
Frames == UNION {[1..n -> SampleRows] : n \in 1..MaxBatch}

StatsFull ==
    [ service_type_median_charges |->
          ("Basic" :> 2000) @@ ("Standard" :> 4000) @@ ("Premium" :> 8000),
      service_type_median_usage |->
          ("Basic" :> 30) @@ ("Standard" :> 60) @@ ("Premium" :> 120),
      monthly_charges_p75 |-> 6200, data_usage_p25 |-> 20 ]
\* statistics fitted on data without a Standard segment
StatsNoStandard ==
    [ service_type_median_charges |-> ("Basic" :> 2000) @@ ("Premium" :> 8000),
      service_type_median_usage |-> ("Basic" :> 30) @@ ("Premium" :> 120),
      monthly_charges_p75 |-> 6200, data_usage_p25 |-> 20 ]
StatsChoices == {StatsFull, StatsNoStandard}

\* the models dictionaries joblib.load may return
ModelsChoices == {{"xgboost", "logistic_regression"}, {"xgboost"}}
\* the sidebar's selector (line 739)
SidebarKeys == {"xgboost", "logistic_regression"}
\* the model_type values a caller of predict_churn may pass
ModelTypes == {"xgboost", "logistic_regression", "random_forest"}
\* the probabilities an external classifier answers with, in percent
ProbGrid == {35, 50, 51}

\* the classifier questions a call asks
Questions(frame, mods, fe_stats, model_type) ==
    IF Route(model_type) \notin mods THEN {}
    ELSE LET X == ClassifierInput(Preprocess(frame, fe_stats), model_type)
         IN {<<Route(model_type), X[i]>> : i \in DOMAIN X}

\* the classifiers are deterministic: a question asked before gets the same answer
Answers(known, questions) ==
    {known @@ f : f \in [questions \ DOMAIN known -> ProbGrid]}

AppIdle ==
    /\ selected_id = 0 /\ customer_data = <<>> /\ churn_prob = -1 /\ risk_level = ""
    /\ features_df = <<>> /\ drivers = <<>> /\ recommendations = <<>>
    /\ probas = <<>> /\ risk_levels = <<>>
UnitIdle == arg = <<>> /\ ret = <<>>

-----------------------------------------------------------------------------
(* The script run: main() with a loaded frame *)

Init ==
    /\ pc = "loaded"
    /\ df \in Frames
    /\ stats \in StatsChoices
    /\ models \in ModelsChoices
    /\ model_key \in SidebarKeys
    /\ oracle = <<>> /\ calls = <<>> /\ error = "none"
    /\ AppIdle /\ UnitIdle

\* df[df['customer_id'] == selected_id].iloc[0]
CustomerRow(frame, id) ==
    frame[CHOOSE i \in DOMAIN frame :
            /\ frame[i].customer_id = id
            /\ \A j \in DOMAIN frame : frame[j].customer_id = id => i <= j]

\* tab 1 (lines 817-906): score the selected customer, explain and recommend
Tab1SingleCustomer ==
    /\ pc = "loaded"
    /\ \E id \in {df[i].customer_id : i \in DOMAIN df} :
       \E row \in {CustomerRow(df, id)} :
       \E answer \in Answers(oracle, Questions(<<row>>, models, stats, model_key)) :
       \E res \in {predict_churn(<<row>>, models, stats, model_key, answer)} :
             /\ selected_id' = id
             /\ customer_data' = row
             /\ IF res.error # "none"
                THEN /\ pc' = "crashed"
                     /\ error' = res.error
                     /\ UNCHANGED <<oracle, calls, churn_prob, risk_level, features_df,
                                    drivers, recommendations>>
                ELSE /\ pc' = "tab1_done"
                     /\ oracle' = answer
                     /\ calls' = Append(calls, res.calls)
                     /\ churn_prob' = res.proba[1]
                     /\ risk_level' = get_risk_level(res.proba[1])[1]
                     /\ features_df' = res.df_features
                     /\ drivers' = get_top_drivers(row, res.df_features, <<>>)
                     /\ recommendations' = get_recommendations(row, res.proba[1])
                     /\ UNCHANGED error
    /\ UNCHANGED <<df, stats, models, model_key, probas, risk_levels, arg, ret>>

\* mutant of Tab2BatchAnalysis: df_results = df, the results written into the loaded frame
Tab2BatchAnalysisInPlace ==
    /\ pc = "tab1_done"
    /\ \E answer \in Answers(oracle, Questions(df, models, stats, model_key)) :
       \E res \in {predict_churn(df, models, stats, model_key, answer)} :
             /\ pc' = "tab2_done"
             /\ oracle' = answer
             /\ calls' = Append(calls, res.calls)
             /\ probas' = res.proba
             /\ risk_levels' = [i \in DOMAIN res.proba |-> BatchRiskLevel(res.proba[i])]
             /\ df' = [i \in DOMAIN df |->
                          df[i] @@ [churn_probability |-> res.proba[i],
                                    risk_level |-> BatchRiskLevel(res.proba[i])]]
    /\ UNCHANGED <<stats, models, model_key, selected_id, customer_data, churn_prob,
                   risk_level, features_df, drivers, recommendations, error, arg, ret>>

\* tab 2 (lines 914-927): score the whole frame
Tab2BatchAnalysis ==
    /\ pc = "tab1_done"
    /\ \E answer \in Answers(oracle, Questions(df, models, stats, model_key)) :
       \E res \in {predict_churn(df, models, stats, model_key, answer)} :
             /\ pc' = "tab2_done"
             /\ oracle' = answer
             /\ calls' = Append(calls, res.calls)
             /\ probas' = res.proba
             /\ risk_levels' = [i \in DOMAIN res.proba |-> BatchRiskLevel(res.proba[i])]
    /\ UNCHANGED <<df, stats, models, model_key, selected_id, customer_data, churn_prob,
                   risk_level, features_df, drivers, recommendations, error, arg, ret>>

Next == Tab1SingleCustomer \/ Tab2BatchAnalysis

Spec == Init /\ [][Next]_vars

-----------------------------------------------------------------------------
(* predict_churn called directly, with any model_type *)

InitScore ==
    /\ pc = "call"
    /\ df \in Frames
    /\ stats \in StatsChoices
    /\ models \in ModelsChoices
    /\ model_key \in ModelTypes
    /\ oracle = <<>> /\ calls = <<>> /\ error = "none"
    /\ AppIdle /\ UnitIdle

CallPredictChurn ==
    /\ pc = "call"
    /\ \E answer \in Answers(oracle, Questions(df, models, stats, model_key)) :
       \E res \in {predict_churn(df, models, stats, model_key, answer)} :
             /\ pc' = "returned"
             /\ ret' = <<res>>
             /\ error' = res.error
             /\ oracle' = answer
             /\ calls' = Append(calls, res.calls)
             /\ probas' = res.proba
    /\ UNCHANGED <<df, stats, models, model_key, selected_id, customer_data, churn_prob,
                   risk_level, features_df, drivers, recommendations, risk_levels, arg>>

NextScore == CallPredictChurn

SpecScore == InitScore /\ [][NextScore]_vars

-----------------------------------------------------------------------------
(* get_risk_level applied to every probability *)

UnitFixed ==
    /\ df = <<>> /\ models = {} /\ model_key = "" /\ oracle = <<>> /\ calls = <<>>
    /\ error = "none" /\ AppIdle

InitRisk ==
    /\ pc = "call"
    /\ arg \in 0..100
    /\ ret = <<>>
    /\ stats = StatsFull
    /\ UnitFixed

CallGetRiskLevel ==
    /\ pc = "call"
    /\ ret' = <<get_risk_level(arg), BatchRiskLevel(arg)>>
    /\ pc' = "returned"
    /\ UNCHANGED <<df, stats, models, model_key, oracle, calls, selected_id, customer_data,
                   churn_prob, risk_level, features_df, drivers, recommendations, probas,
                   risk_levels, error, arg>>

NextRisk == CallGetRiskLevel

SpecRisk == InitRisk /\ [][NextRisk]_vars

-----------------------------------------------------------------------------
(* standardize_categoricals applied to raw labels, and to its own output *)

RawContract ==
    {Str("Month-to-Month"), Str(" MTM "), Str("one year"), Str("24 Months"),
     Str("ONE YEAR"), Str("weird_value"), NaNCell}
RawPayment ==
    {Str("M-Pesa"), Str("mpesa"), Str(" Cash"), Str("Bank_Transfer"), Str("Paypal"), NaNCell}
RawAutopay ==
    {Str("Yes"), Str(" Y "), Str("false"), Str("maybe"), IntCell(1), IntCell(0),
     IntCell(2), NaNCell}
RawService == {Str("Basic"), Str("Premium"), Str(" Basic"), Str("standard"), NaNCell}
RawLocation == {Str("Urban"), Str("Rural"), Str("Suburban "), Str("rural"), NaNCell}

InitNormalize ==
    /\ pc = "raw"
    /\ \E c \in RawContract, p \in RawPayment, a \in RawAutopay, s \in RawService,
          l \in RawLocation :
          arg = << [RowDuplicateId EXCEPT !.contract_type = c, !.payment_method = p,
                                          !.autopay_enabled = a, !.service_type = s,
                                          !.location_type = l] >>
    /\ ret = <<>>
    /\ stats = StatsFull
    /\ UnitFixed

\* the frame the next cleaning step is applied to
Latest == IF ret = <<>> THEN arg ELSE ret[Len(ret)]

CallStandardizeCategoricals ==
    /\ pc \in {"raw", "normalized"}
    /\ Len(ret) < MaxApply
    /\ ret' = Append(ret, standardize_categoricals(Latest))
    /\ pc' = "normalized"
    /\ UNCHANGED <<df, stats, models, model_key, oracle, calls, selected_id, customer_data,
                   churn_prob, risk_level, features_df, drivers, recommendations, probas,
                   risk_levels, error, arg>>

NextNormalize == CallStandardizeCategoricals

SpecNormalize == InitNormalize /\ [][NextNormalize]_vars

-----------------------------------------------------------------------------
(* The cleaning steps of predict_churn, one at a time, on rows with missing cells; *)
(* handle_missing_values is also re-applied to its own output                     *)

RawTenure == {NaN, Num(-1), Num(0), Num(3)}
RawMonthly == {NaN, Num(3000)}
RawTotal == {NaN, Num(100), Num(9000)}
RawUsage == {NaN, Num(50)}
RawNumServices == {NaN, Num(2)}
RawSupport == {NaN, Num(-2), Num(4)}
RawLate == {NaN, Num(1)}
RawReferral == {NaN, Num(1)}
RawSegment == {Str("Basic"), Str("Premium"), Str("weird_value")}

InitImpute ==
    /\ pc = "raw"
    /\ \E t \in RawTenure, m \in RawMonthly, tot \in RawTotal, u \in RawUsage,
          n \in RawNumServices, sc \in RawSupport, l \in RawLate, r \in RawReferral,
          s \in RawSegment :
          arg = << Row(1, t, Str("Month to Month"), s, m, tot, Str("mpesa"), Str("Urban"),
                       n, u, sc, Str("No"), l, r) >>
    /\ ret = <<>>
    /\ stats \in StatsChoices
    /\ UnitFixed

\* line 352
CallStandardizeRaw ==
    /\ pc = "raw"
    /\ ret' = <<standardize_categoricals(arg)>>
    /\ pc' = "normalized"
    /\ UNCHANGED <<df, stats, models, model_key, oracle, calls, selected_id, customer_data,
                   churn_prob, risk_level, features_df, drivers, recommendations, probas,
                   risk_levels, error, arg>>

\* line 353; ret[2] is the imputed frame, ret[3] .. its re-imputations
CallHandleMissingValues ==
    /\ pc \in {"normalized", "imputed"}
    /\ Len(ret) <= MaxApply
    /\ ret' = Append(ret, handle_missing_values(ret[Len(ret)], stats))
    /\ pc' = "imputed"
    /\ UNCHANGED <<df, stats, models, model_key, oracle, calls, selected_id, customer_data,
                   churn_prob, risk_level, features_df, drivers, recommendations, probas,
                   risk_levels, error, arg>>

\* lines 354-355, on the frame imputed once
CallDeriveFeatures ==
    /\ pc = "imputed"
    /\ features_df' = engineer_features(detect_anomalies(ret[2]), stats)
    /\ pc' = "derived"
    /\ UNCHANGED <<df, stats, models, model_key, oracle, calls, selected_id, customer_data,
                   churn_prob, risk_level, drivers, recommendations, probas,
                   risk_levels, error, arg, ret>>

NextImpute == CallStandardizeRaw \/ CallHandleMissingValues \/ CallDeriveFeatures

SpecImpute == InitImpute /\ [][NextImpute]_vars

-----------------------------------------------------------------------------
(* get_risk_level, get_top_drivers and get_recommendations applied to one record *)
(* and one probability, over the values on both sides of every rule's threshold   *)

RuleContract == {Str("Month-to-Month"), Str("Month to Month"), Str("One Year")}
RuleTenure == {NaN, Num(3), Num(6), Num(24), Num(25)}
RuleMonthly == {NaN, Num(6200), Num(6201)}
RuleSupport == {NaN, Num(3), Num(4)}
RuleLate == {NaN, Num(0), Num(2), Num(3)}
RuleAutopay == {Str("No"), Str("Yes"), Str("N")}
RuleReferral == {Num(0), Num(1)}
RuleProba == {0, 35, 36, 49, 50, 51, 100}

InitRules ==
    /\ pc = "call"
    /\ \E c \in RuleContract, t \in RuleTenure, m \in RuleMonthly, sc \in RuleSupport,
          l \in RuleLate, a \in RuleAutopay, r \in RuleReferral :
          customer_data = Row(1, t, c, Str("Basic"), m, Num(9000), Str("M-Pesa"),
                              Str("Urban"), Num(2), Num(50), sc, a, l, r)
    /\ churn_prob \in RuleProba
    /\ selected_id = 0 /\ risk_level = "" /\ features_df = <<>>
    /\ drivers = <<>> /\ recommendations = <<>> /\ probas = <<>> /\ risk_levels = <<>>
    /\ df = <<>> /\ models = {} /\ model_key = "" /\ oracle = <<>> /\ calls = <<>>
    /\ error = "none" /\ stats = StatsFull
    /\ UnitIdle

\* the three calls tab 1 makes once the probability is known (lines 837, 874, 887)
CallRuleTables ==
    /\ pc = "call"
    /\ risk_level' = get_risk_level(churn_prob)[1]
    /\ drivers' = get_top_drivers(customer_data, features_df, <<>>)
    /\ recommendations' = get_recommendations(customer_data, churn_prob)
    /\ pc' = "returned"
    /\ UNCHANGED <<df, stats, models, model_key, oracle, calls, selected_id, customer_data,
                   churn_prob, features_df, probas, risk_levels, error, arg, ret>>

NextRules == CallRuleTables

SpecRules == InitRules /\ [][NextRules]_vars

-----------------------------------------------------------------------------
(* detect_anomalies applied to frames whose charges are below, equal to and above *)
(* one another, or missing                                                         *)

AnomalyTotal == {NaN, Num(100), Num(150), Num(300)}
AnomalyMonthly == {NaN, Num(0), Num(150)}
AnomalyRows ==
    {[RowNewMtm EXCEPT !.total_charges = tot, !.monthly_charges = m] :
        tot \in AnomalyTotal, m \in AnomalyMonthly}

InitAnomaly ==
    /\ pc = "call"
    /\ arg \in UNION {[1..n -> AnomalyRows] : n \in 1..MaxBatch}
    /\ ret = <<>>
    /\ stats = StatsFull
    /\ UnitFixed

CallDetectAnomalies ==
    /\ pc = "call"
    /\ ret' = <<detect_anomalies(arg)>>
    /\ pc' = "flagged"
    /\ UNCHANGED <<df, stats, models, model_key, oracle, calls, selected_id, customer_data,
                   churn_prob, risk_level, features_df, drivers, recommendations, probas,
                   risk_levels, error, arg>>

NextAnomaly == CallDetectAnomalies

SpecAnomaly == InitAnomaly /\ [][NextAnomaly]_vars

-----------------------------------------------------------------------------
(* The cleaning steps and engineer_features on raw records: tenure around the   *)
(* divisor's floor, every payment method and every location                      *)

DeriveTenure == {NaN, Num(-1), Num(0), Num(1), Num(3), Num(30)}
DeriveTotal == {NaN, Num(0), Num(500), Num(9000)}
DeriveMonthly == {NaN, Num(-100), Num(0), Num(3000)}
DerivePayment ==
    {Str("M-Pesa"), Str("bank transfer"), Str("Credit Card"), Str("debit card"),
     Str(" Cash"), Str("Paypal"), NaNCell}
DeriveLocation == {Str("Urban"), Str("Rural"), Str("Suburban"), Str("rural"), NaNCell}

InitDerive ==
    /\ pc = "raw"
    /\ \E t \in DeriveTenure, tot \in DeriveTotal, m \in DeriveMonthly,
          p \in DerivePayment, l \in DeriveLocation :
          arg = << [RowNewMtm EXCEPT !.tenure_months = t, !.total_charges = tot,
                                     !.monthly_charges = m,
                                     !.payment_method = p, !.location_type = l] >>
    /\ ret = <<>>
    /\ stats = StatsFull
    /\ UnitFixed

\* lines 352-354: the cleaned frame
CallCleanRecord ==
    /\ pc = "raw"
    /\ ret' = <<detect_anomalies(
                   handle_missing_values(standardize_categoricals(arg), stats))>>
    /\ pc' = "cleaned"
    /\ UNCHANGED <<df, stats, models, model_key, oracle, calls, selected_id, customer_data,
                   churn_prob, risk_level, features_df, drivers, recommendations, probas,
                   risk_levels, error, arg>>

\* line 355
CallEngineerFeatures ==
    /\ pc = "cleaned"
    /\ features_df' = engineer_features(ret[1], stats)
    /\ pc' = "derived"
    /\ UNCHANGED <<df, stats, models, model_key, oracle, calls, selected_id, customer_data,
                   churn_prob, risk_level, drivers, recommendations, probas,
                   risk_levels, error, arg, ret>>

NextDerive == CallCleanRecord \/ CallEngineerFeatures

SpecDerive == InitDerive /\ [][NextDerive]_vars

-----------------------------------------------------------------------------
(* Properties *)

Range(seq) == {seq[i] : i \in DOMAIN seq}
NoRepeat(seq) == \A i, j \in DOMAIN seq : seq[i] = seq[j] => i = j
NumericFields ==
    {"tenure_months", "monthly_charges", "total_charges", "data_usage_gb",
     "num_services", "support_calls", "late_payment_count", "referral_count"}

IsScenarioRecord(r) ==
    /\ r.tenure_months = Num(3)
    /\ r.contract_type = Str("Month to Month")
    /\ r.autopay_enabled = Str("No")
    /\ r.support_calls = Num(0)
    /\ r.late_payment_count = Num(0)
    /\ r.monthly_charges = Num(3000)

\* C2 (Spec): the scenario record run through the single-customer flow has
\* is_new_customer = 1 and contract_risk = 2, its recommendations include the
\* onboarding-specialist and the contract-discount actions, and its drivers include
\* "Month-to-Month Contract" and "New Customer (<6 months)".
C2_EndToEndScenario ==
    (pc \in {"tab1_done", "tab2_done"} /\ IsScenarioRecord(customer_data)) =>
        /\ features_df[1].is_new_customer = 1
        /\ features_df[1].contract_risk = Num(2)
        /\ RecOnboarding \in Range(recommendations)
        /\ RecContract \in Range(recommendations)
        /\ DrvContract \in Range(drivers)
        /\ DrvNew \in Range(drivers)

\* C3 (Spec): the batch call gives every position holding the record that was scored
\* alone the probability, and the risk tier, of the single-record call.
C3_BatchEqualsSingle ==
    pc = "tab2_done" =>
        \A i \in DOMAIN df :
            df[i] = customer_data =>
                /\ probas[i] = churn_prob
                /\ risk_levels[i] = risk_level

\* a batch whose other row triggers the frame-level isna().any() guards
C3_Witness ==
    /\ pc = "tab2_done"
    /\ Len(df) = 2
    /\ df[1] = customer_data
    /\ df[2] # customer_data
    /\ ~IsNaN(df[1].total_charges)
    /\ IsNaN(df[2].total_charges)
    /\ probas[1] = churn_prob

\* C4 (SpecImpute): handle_missing_values applied to its own output changes nothing.
C4_ImputerFixedPoint ==
    \A k \in DOMAIN ret : k >= 3 => ret[k] = ret[k - 1]

\* C5 (SpecImpute): after normalization and imputation no numeric field is missing
\* when the record reaches the anomaly detector and the feature deriver.
C5_NoMissingNumeric ==
    pc \in {"imputed", "derived"} =>
        \A f \in NumericFields : ~IsNaN(ret[2][1][f])

\* every categorical field holds a member of its canonical enumeration
CanonicalRow(r) ==
    /\ r.contract_type \in {Str("Month-to-Month"), Str("One Year"), Str("Two Year")}
    /\ r.payment_method \in {Str("M-Pesa"), Str("Bank Transfer"), Str("Credit Card"),
                             Str("Debit Card"), Str("Cash")}
    /\ r.autopay_enabled \in {Str("Yes"), Str("No")}
    /\ r.service_type \in {Str("Basic"), Str("Standard"), Str("Premium")}
    /\ r.location_type \in {Str("Urban"), Str("Suburban"), Str("Rural")}

\* C6 (SpecNormalize): every output of the normalizer is canonical in all five
\* fields, an unrecognized value gives the field's default, and normalizing a
\* normalized record returns it unchanged.
C6_NormalizerTotalIdempotent ==
    /\ \A k \in DOMAIN ret :
          /\ CanonicalRow(ret[k][1])
          /\ k > 1 => ret[k] = ret[k - 1]
    /\ ret # <<>> =>
          /\ arg[1].contract_type = Str("weird_value")
                => ret[1][1].contract_type = Str("Month-to-Month")
          /\ arg[1].payment_method = Str("Paypal") => ret[1][1].payment_method = Str("M-Pesa")
          /\ arg[1].autopay_enabled = Str("maybe") => ret[1][1].autopay_enabled = Str("No")
          /\ arg[1].service_type = Str("standard") => ret[1][1].service_type = Str("Standard")
          /\ arg[1].location_type = Str("rural") => ret[1][1].location_type = Str("Urban")

C6_Witness ==
    /\ Len(ret) = 2
    /\ arg[1].contract_type = Str("weird_value")
    /\ arg[1].autopay_enabled = IntCell(1)
    /\ ret[1][1].contract_type = Str("Month-to-Month")
    /\ ret[2] = ret[1]

\* the fitted median of a segment, or the fixed default when the segment is unseen
SegmentMedianOr(segment, service, default) ==
    IF service[2] \in DOMAIN segment THEN Num(segment[service[2]]) ELSE Num(default)

\* C7 (SpecImpute): a missing monthly_charges (data_usage_gb) is filled with the fitted
\* median of the record's own service_type, and with 5000 (70) only when that segment
\* has no fitted median.
C7_OwnSegmentMedian ==
    Len(ret) >= 2 =>
        /\ IsNaN(ret[1][1].monthly_charges) =>
              ret[2][1].monthly_charges =
                  SegmentMedianOr(stats.service_type_median_charges,
                                  ret[1][1].service_type, 5000)
        /\ IsNaN(ret[1][1].data_usage_gb) =>
              ret[2][1].data_usage_gb =
                  SegmentMedianOr(stats.service_type_median_usage,
                                  ret[1][1].service_type, 70)

\* C8 (SpecScore): a call whose selector is not a registered model fails and produces
\* no probability; no other scorer serves it.
C8_ModelUnavailable ==
    (pc = "returned" /\ model_key \notin models) =>
        /\ ret[1].error # "none"
        /\ ret[1].proba = <<>>
        /\ ret[1].served_by = "none"

\* the rows of every classifier input, per scoring call, have `n` entries
TreeInputArity(n) ==
    \A k \in DOMAIN calls :
        model_key = "xgboost" => \A i \in DOMAIN calls[k][1].X : Len(calls[k][1].X[i]) = n
LinearInputArity(n) ==
    \A k \in DOMAIN calls :
        model_key = "logistic_regression" =>
            \A i \in DOMAIN calls[k][1].X : Len(calls[k][1].X[i]) = n

FeatureSetsWellFormed ==
    /\ NoRepeat(LR_FEATURE_SET)
    /\ NoRepeat(XGBOOST_FEATURE_SET)
    /\ {"tenure_bin", "monthly_charges_log", "late_payment_flag"}
           \subseteq Range(XGBOOST_FEATURE_SET) \ Range(LR_FEATURE_SET)

\* C9 as stated (Spec): the linear set has exactly 32 names and the tree set exactly
\* 34, none repeated; tenure_bin, monthly_charges_log and late_payment_flag are in the
\* tree set only.
C9_FeatureSetSizesAsClaimed ==
    /\ Len(LR_FEATURE_SET) = 32 /\ LinearInputArity(32)
    /\ Len(XGBOOST_FEATURE_SET) = 34 /\ TreeInputArity(34)
    /\ FeatureSetsWellFormed

\* C9 amended (Spec): the linear set has exactly 32 names and the tree set exactly 35,
\* none repeated; tenure_bin, monthly_charges_log and late_payment_flag are in the tree
\* set only.
C9_FeatureSetSizes ==
    /\ Len(LR_FEATURE_SET) = 32 /\ LinearInputArity(32)
    /\ Len(XGBOOST_FEATURE_SET) = 35 /\ TreeInputArity(35)
    /\ FeatureSetsWellFormed

C9_Witness ==
    /\ pc = "tab1_done"
    /\ model_key = "xgboost"
    /\ Len(calls) = 1
    /\ Len(calls[1][1].X[1]) = 35

\* C10 (Spec): in every scoring call the linear path projects the linear set, scales
\* it, and calls the linear classifier on the scaler's output; the tree path calls the
\* ensemble classifier on the unscaled tree-set vectors; one classifier per call.
C10_ScaleThenClassify ==
    \A k \in DOMAIN calls :
        LET c == calls[k]
            scored == IF k = 1 THEN <<customer_data>> ELSE df
            classifier_calls ==
                {n \in DOMAIN c :
                    c[n].fn \in {"xgboost.predict_proba", "logistic_regression.predict_proba"}}
        IN /\ Cardinality(classifier_calls) = 1
           /\ IF model_key = "xgboost"
              THEN /\ Len(c) = 1
                   /\ c[1].fn = "xgboost.predict_proba"
                   /\ c[1].X = Project(Preprocess(scored, stats), XGBOOST_FEATURE_SET)
              ELSE /\ Len(c) = 2
                   /\ c[1].fn = "scaler.transform"
                   /\ c[1].X = Project(Preprocess(scored, stats), LR_FEATURE_SET)
                   /\ c[2].fn = "logistic_regression.predict_proba"
                   /\ c[2].X = [i \in DOMAIN c[1].X |-> <<"scaled", c[1].X[i]>>]

C10_Witness ==
    /\ pc = "tab2_done"
    /\ model_key = "logistic_regression"
    /\ Len(calls) = 2
    /\ calls[2][1].fn = "scaler.transform"
    /\ calls[2][2].fn = "logistic_regression.predict_proba"

\* the driver rule table: facts in evaluation order, and each rule's condition
DriverOrder ==
    <<DrvContract, DrvNew, DrvHighValue, DrvSupport, DrvLate, DrvNoAutopay,
      DrvEstablished, DrvReferrals>>
Over(cell, n) == cell # NaN /\ cell[1] > n
Under(cell, n) == cell # NaN /\ cell[1] < n
DriverRuleMatches(k, cd) ==
    CASE k = 1 -> cd.contract_type = Str("Month-to-Month")
      [] k = 2 -> Under(cd.tenure_months, 6)
      [] k = 3 -> Over(cd.monthly_charges, 6200)
      [] k = 4 -> Over(cd.support_calls, 3)
      [] k = 5 -> Over(cd.late_payment_count, 0)
      [] k = 6 -> cd.autopay_enabled = Str("No")
      [] k = 7 -> Over(cd.tenure_months, 24)
      [] k = 8 -> Over(cd.referral_count, 0)
DriverMatches(cd) == {k \in DOMAIN DriverOrder : DriverRuleMatches(k, cd)}
DriverPos(fact) == CHOOSE k \in DOMAIN DriverOrder : DriverOrder[k] = fact

\* C11 (SpecRules): for every record the driver list is the subsequence of the satisfied
\* rules in the fixed order MTM-contract, new-customer, high-value, heavy-support,
\* late-payments, no-autopay, established-customer, has-referrals, cut to its first 6
\* entries: at most 6 facts, no fact twice, no fact before one of an earlier rule.
C11_DriversOrderedPrefix ==
    pc = "returned" =>
        LET S == DriverMatches(customer_data)
        IN /\ Len(drivers) <= 6
           /\ Len(drivers) = IF Cardinality(S) < 6 THEN Cardinality(S) ELSE 6
           /\ NoRepeat(drivers)
           /\ \A i \in DOMAIN drivers :
                 /\ drivers[i] \in Range(DriverOrder)
                 /\ DriverPos(drivers[i]) \in S
           /\ \A i, j \in DOMAIN drivers :
                 i < j => DriverPos(drivers[i]) < DriverPos(drivers[j])
           /\ \A k \in S :
                 Cardinality({j \in S : j < k}) < 6 => DriverOrder[k] \in Range(drivers)

\* seven rules match and the seventh fact is cut off
C11_Witness ==
    /\ pc = "returned"
    /\ Cardinality(DriverMatches(customer_data)) = 7
    /\ drivers = <<DrvContract, DrvNew, DrvHighValue, DrvSupport, DrvLate, DrvNoAutopay>>

\* the recommendation rule table: actions in evaluation order, and each rule's condition
RecOrder ==
    <<RecUrgent, RecContract, RecOnboarding, RecAutopay, RecSupport, RecVip,
      RecPaymentPlan>>
RecRuleMatches(k, cd, p) ==
    CASE k = 1 -> p > 50
      [] k = 2 -> cd.contract_type = Str("Month-to-Month")
      [] k = 3 -> Under(cd.tenure_months, 6)
      [] k = 4 -> cd.autopay_enabled = Str("No")
      [] k = 5 -> Over(cd.support_calls, 3)
      [] k = 6 -> Over(cd.monthly_charges, 6200)
      [] k = 7 -> Over(cd.late_payment_count, 2)
RecMatches(cd, p) == {k \in DOMAIN RecOrder : RecRuleMatches(k, cd, p)}
RecPos(rec) == CHOOSE k \in DOMAIN RecOrder : RecOrder[k] = rec

\* C12 (SpecRules): for every record and probability the recommendation list holds every
\* rule that matches and none that does not, each at most once, in the fixed order
\* urgent, MTM-contract, new-customer, no-autopay, heavy-support, high-value,
\* late-payments, without truncation (7 actions when all 7 match, none when none does).
C12_RecommendationsAllMatches ==
    pc = "returned" =>
        LET S == RecMatches(customer_data, churn_prob)
        IN /\ {RecPos(rec) : rec \in Range(recommendations)} = S
           /\ Range(recommendations) \subseteq Range(RecOrder)
           /\ Len(recommendations) = Cardinality(S)
           /\ NoRepeat(recommendations)
           /\ \A i, j \in DOMAIN recommendations :
                 i < j => RecPos(recommendations[i]) < RecPos(recommendations[j])
           /\ (S = DOMAIN RecOrder) => recommendations = RecOrder
           /\ (S = {}) => recommendations = <<>>

\* all seven rules match and seven actions are returned
C12_Witness ==
    /\ pc = "returned"
    /\ RecMatches(customer_data, churn_prob) = 1..7
    /\ Len(recommendations) = 7

\* C13 (SpecAnomaly): for every record detect_anomalies sets charges_anomaly_flag to 1
\* exactly when total_charges < monthly_charges and to 0 otherwise (equal values give 0),
\* and changes no other field of the record.
C13_AnomalyFlag ==
    pc = "flagged" =>
        /\ DOMAIN ret[1] = DOMAIN arg
        /\ \A i \in DOMAIN arg :
              LET in == arg[i]
                  out == ret[1][i]
                  below == /\ in.total_charges # NaN /\ in.monthly_charges # NaN
                           /\ in.total_charges[1] < in.monthly_charges[1]
              IN /\ DOMAIN out = DOMAIN in \cup {"charges_anomaly_flag"}
                 /\ out.charges_anomaly_flag = (IF below THEN 1 ELSE 0)
                 /\ \A k \in DOMAIN in : out[k] = in[k]

\* one row below (100 < 150, flag 1), one row equal (150 = 150, flag 0)
C13_Witness ==
    /\ pc = "flagged"
    /\ Len(arg) = 2
    /\ arg[1].total_charges = Num(100) /\ arg[1].monthly_charges = Num(150)
    /\ ret[1][1].charges_anomaly_flag = 1
    /\ arg[2].total_charges = Num(150) /\ arg[2].monthly_charges = Num(150)
    /\ ret[1][2].charges_anomaly_flag = 0

\* C14 (SpecDerive): avg_monthly_revenue never divides by zero: for every cleaned record
\* the divisor is max(tenure_months, 1) >= 1, so tenure_months = 0 with
\* total_charges = 500 gives 500, and for tenure_months >= 1 the value is
\* total_charges / tenure_months (a missing total gives a missing quotient).
C14_AvgMonthlyRevenue ==
    pc = "derived" =>
        \A i \in DOMAIN features_df :
            LET cleaned == ret[1][i]
                avg == features_df[i].avg_monthly_revenue
                tenure == cleaned.tenure_months[1]
                total == cleaned.total_charges[1]
                divisor == IF tenure >= 1 THEN tenure ELSE 1
            IN /\ cleaned.tenure_months # NaN
               /\ divisor >= 1
               /\ IF cleaned.total_charges = NaN
                  THEN avg = NaN
                  ELSE /\ Len(avg) \in {1, 2}
                       /\ Len(avg) = 1 => avg[1] * divisor = total
                       /\ Len(avg) = 2 => avg[2] > 0 /\ avg[1] * divisor = total * avg[2]
                       /\ (tenure = 0 /\ total = 500) => avg = Num(500)
                       /\ tenure >= 1 => avg = Ratio(total, tenure)

\* tenure_months = 0 and total_charges = 500 give avg_monthly_revenue = 500
C14_Witness ==
    /\ pc = "derived"
    /\ ret[1][1].tenure_months = Num(0)
    /\ ret[1][1].total_charges = Num(500)
    /\ features_df[1].avg_monthly_revenue = Num(500)

\* C17 (SpecDerive): for every raw record passed through the normalizer and the feature
\* deriver, at most one of pay_bank, pay_credit, pay_debit, pay_cash is 1 and
\* is_mpesa = 1 exactly when all four are 0; at most one of loc_suburban, loc_rural is 1
\* and both are 0 exactly when location_type is Urban.
C17_OneHotWellFormed ==
    pc = "derived" =>
        \A i \in DOMAIN features_df :
            LET f == features_df[i]
                pay == <<f.pay_bank, f.pay_credit, f.pay_debit, f.pay_cash>>
                loc == <<f.loc_suburban, f.loc_rural>>
            IN /\ Range(pay) \cup Range(loc) \cup {f.is_mpesa} \subseteq {0, 1}
               /\ Cardinality({k \in DOMAIN pay : pay[k] = 1}) <= 1
               /\ (f.is_mpesa = 1) <=> (\A k \in DOMAIN pay : pay[k] = 0)
               /\ Cardinality({k \in DOMAIN loc : loc[k] = 1}) <= 1
               /\ (\A k \in DOMAIN loc : loc[k] = 0) <=> (f.location_type = Str("Urban"))

\* an unmapped payment label and an unlisted location: M-Pesa and Urban by default
C17_Witness ==
    /\ pc = "derived"
    /\ arg[1].payment_method = Str("Paypal")
    /\ arg[1].location_type = Str("rural")
    /\ features_df[1].is_mpesa = 1
    /\ features_df[1].pay_cash = 0
    /\ features_df[1].loc_rural = 0

\* C15 (Spec): no pipeline step modifies the shared statistics or the record passed in by
\* the caller: across every scoring call the loaded frame and the statistics keep their
\* values, and the record handed to the scorer and to the rule tables is still the
\* frame's row after the calls.
C15_InputsUntouched ==
    /\ [][ /\ df' = df
           /\ stats' = stats
           /\ pc # "loaded" => customer_data' = customer_data ]_vars
    /\ [](pc \in {"tab1_done", "tab2_done"} => customer_data = CustomerRow(df, selected_id))

\* two scoring calls were made, the second on a frame of two rows
C15_Witness ==
    /\ pc = "tab2_done"
    /\ Len(calls) = 2
    /\ Len(df) = 2
    /\ Len(probas) = 2
    /\ customer_data = CustomerRow(df, selected_id)

\* C16 (SpecImpute): the imputer fills a missing total_charges after monthly_charges:
\* whenever total_charges is missing, the filled value is the already imputed
\* monthly_charges times max(tenure_months, 1), also when monthly_charges was missing
\* in the input and when tenure_months is 0 or negative.
C16_TotalFilledFromImputedMonthly ==
    Len(ret) >= 2 =>
        \A i \in DOMAIN ret[1] :
            LET raw == ret[1][i]
                filled == ret[2][i]
                tenure == filled.tenure_months[1]
            IN raw.total_charges = NaN =>
                  /\ filled.monthly_charges # NaN
                  /\ filled.tenure_months # NaN
                  /\ filled.total_charges =
                        Num(filled.monthly_charges[1] * (IF tenure >= 1 THEN tenure ELSE 1))

\* C18 (SpecRules): cutting the driver list to 6 can only drop "Has Made Referrals": the
\* new-customer rule (tenure < 6) and the established-customer rule (tenure > 24) never
\* both match, so at most 7 rules match, and every satisfied risk fact and a satisfied
\* "Established Customer" fact are in the result.
C18_OnlyReferralsDropped ==
    pc = "returned" =>
        LET S == DriverMatches(customer_data)
        IN /\ ~(2 \in S /\ 7 \in S)
           /\ Cardinality(S) <= 7
           /\ \A k \in S : k # 8 => DriverOrder[k] \in Range(drivers)
           /\ {DriverOrder[k] : k \in S} \ Range(drivers) \subseteq {DrvReferrals}

\* seven rules match: "Established Customer" is the sixth fact, the referrals fact is cut
C18_Witness ==
    /\ pc = "returned"
    /\ DriverMatches(customer_data) = {1, 3, 4, 5, 6, 7, 8}
    /\ Len(drivers) = 6
    /\ drivers[6] = DrvEstablished
    /\ DrvReferrals \notin Range(drivers)

Recommends(action) == \E i \in DOMAIN recommendations : recommendations[i].action = action

\* C19 (SpecRules): for every probability the recommendation list holds the URGENT action
\* "Schedule immediate retention call" exactly when get_risk_level returns HIGH for that
\* probability, and the action is then the first entry of the list.
C19_UrgentIffHigh ==
    pc = "returned" =>
        /\ Recommends("Schedule immediate retention call") <=> (risk_level = "HIGH")
        /\ (\E i \in DOMAIN recommendations : recommendations[i].priority = "URGENT")
               <=> (risk_level = "HIGH")
        /\ risk_level = "HIGH" =>
               /\ recommendations[1].priority = "URGENT"
               /\ recommendations[1].action = "Schedule immediate retention call"
               /\ \A i \in DOMAIN recommendations :
                     recommendations[i].priority = "URGENT" => i = 1

\* probability 0.51: tier HIGH, the urgent action first and other actions after it
C19_Witness ==
    /\ pc = "returned"
    /\ churn_prob = 51
    /\ risk_level = "HIGH"
    /\ Len(recommendations) > 1
    /\ recommendations[1] = RecUrgent

Drives(label) == \E i \in DOMAIN drivers : drivers[i][1] = label

\* C20 (SpecRules): for every record evaluated by both rule tables the drivers hold the
\* MTM-contract, new-customer, high-value, heavy-support and no-autopay facts exactly when
\* the recommendations hold the contract-discount, onboarding-specialist, VIP-retention,
\* customer-success-escalation and autopay-incentive actions; and whenever the flexible
\* payment plan is recommended the "Late Payments" driver is present.
C20_RuleTablesAgree ==
    pc = "returned" =>
        /\ Drives("Month-to-Month Contract")
              <=> Recommends("Offer 12-month contract with 15% discount")
        /\ Drives("New Customer (<6 months)")
              <=> Recommends("Assign dedicated onboarding specialist")
        /\ Drives("High-Value Customer")
              <=> Recommends("VIP retention call + loyalty reward program")
        /\ Drives("High Support Usage")
              <=> Recommends("Escalate to customer success manager")
        /\ Drives("No Autopay")
              <=> Recommends("Enable autopay with KES 500 credit incentive")
        /\ Recommends("Offer flexible payment plan") => Drives("Late Payments")

\* the five shared conditions and the late-payment rules all match: six drivers, and the
\* six matching actions
C20_Witness ==
    /\ pc = "returned"
    /\ drivers = <<DrvContract, DrvNew, DrvHighValue, DrvSupport, DrvLate, DrvNoAutopay>>
    /\ churn_prob = 35
    /\ recommendations =
          <<RecContract, RecOnboarding, RecAutopay, RecSupport, RecVip, RecPaymentPlan>>
    /\ customer_data.referral_count = Num(1)

\* C21 (SpecDerive): a record whose total_charges was missing and was filled by the
\* imputer never gets charges_anomaly_flag = 1 from the anomaly detector that runs next,
\* for every record with monthly_charges >= 0 (given or imputed) and tenure_months
\* present: the imputed total is at least monthly_charges.
C21_ImputedTotalNotAnomalous ==
    pc \in {"cleaned", "derived"} =>
        \A i \in DOMAIN arg :
            LET raw == arg[i]
                cleaned == ret[1][i]
            IN (/\ raw.total_charges = NaN
                /\ raw.tenure_months # NaN
                /\ cleaned.monthly_charges # NaN
                /\ cleaned.monthly_charges[1] >= 0)
               => /\ cleaned.total_charges # NaN
                  /\ cleaned.total_charges[1] >= cleaned.monthly_charges[1]
                  /\ cleaned.charges_anomaly_flag = 0

\* total and monthly both missing, tenure 0: the total is filled with the imputed
\* monthly charge itself and the flag is 0
C21_Witness ==
    /\ pc = "cleaned"
    /\ arg[1].total_charges = NaN
    /\ arg[1].monthly_charges = NaN
    /\ arg[1].tenure_months = Num(0)
    /\ ret[1][1].total_charges = ret[1][1].monthly_charges
    /\ ret[1][1].monthly_charges # NaN
    /\ ret[1][1].charges_anomaly_flag = 0

====
